---- MODULE Spec2Model ----
(***************************************************************************)
(* Ingestion core of the factory-farm violations tracker: the canonical    *)
(* store (database.py), the two source fetchers with their normalizers     *)
(* (scrapers/fsis_recalls.py, scrapers/epa_echo.py) and the orchestrator   *)
(* (scrape.py).                                                            *)
(*                                                                         *)
(* Python values.  A str is a tuple of one-character strings, a float is   *)
(* a one-element tuple <<n>>, None is the two-element tuple below (no str  *)
(* and no float equals it).  A dict is a function on its keys.  A list of  *)
(* raw payload records is run-length encoded: a sequence of [x, k] runs,   *)
(* each standing for k consecutive copies of the record x.                 *)
(***************************************************************************)
EXTENDS Integers, Sequences, FiniteSets, TLC

None == <<"None", "">>

\* what a normalizer call yields when it raises, and when it returns None
Raised == [raised |-> TRUE]
NoRecord == [dropped |-> TRUE]

Truthy(x) == x # None /\ x # <<>>

Get(d, k, default) == IF k \in DOMAIN d THEN d[k] ELSE default

Min(a, b) == IF a < b THEN a ELSE b
SetMin(S) == CHOOSE x \in S : \A y \in S : x <= y

RECURSIVE ListLen(_)
ListLen(l) == IF l = <<>> THEN 0 ELSE Head(l).k + ListLen(Tail(l))

RECURSIVE JoinStr(_, _)
JoinStr(parts, sep) ==
  IF parts = <<>> THEN <<>>
  ELSE IF Len(parts) = 1 THEN Head(parts)
  ELSE Head(parts) \o sep \o JoinStr(Tail(parts), sep)

RECURSIVE FilterTruthy(_)
FilterTruthy(parts) ==
  IF parts = <<>> THEN <<>>
  ELSE IF Truthy(Head(parts)) THEN <<Head(parts)>> \o FilterTruthy(Tail(parts))
  ELSE FilterTruthy(Tail(parts))

CommaSpace == <<",", " ">>
DotSpace == <<".", " ">>
Ellipsis == <<".", ".", ".">>
Dash == <<"-">>
StrUnknown == <<"U", "n", "k", "n", "o", "w", "n">>

(***************************************************************************)
(* database.py                                                             *)
(***************************************************************************)
Key(rec) == <<rec.source, rec.source_id>>

\* A connection is the set of rows it sees: the committed rows it was opened
\* on plus its own uncommitted inserts.  A row is [id, rec].

\* id INTEGER PRIMARY KEY AUTOINCREMENT
NextRowId(conn) ==
  IF conn = {} THEN 1
  ELSE 1 + CHOOSE m \in {r.id : r \in conn} : \A r \in conn : r.id <= m

\* UNIQUE(source, source_id): NULL source_ids never conflict
Conflicts(conn, rec) ==
  /\ rec.source_id # None
  /\ \E r \in conn : Key(r.rec) = Key(rec)

\* INSERT OR IGNORE (a NOT NULL violation is ignored as well): the rows the
\* connection sees afterwards
\* INSERT without a conflict clause and without the UNIQUE constraint
upsert_violation_insert(conn, rec) ==
  IF rec.facility_name = None THEN conn
  ELSE conn \cup {[id |-> NextRowId(conn), rec |-> rec]}

\* INSERT OR REPLACE: the row that holds the key gives way to the new one
upsert_violation_replace(conn, rec) ==
  IF rec.facility_name = None THEN conn
  ELSE {r \in conn : ~(rec.source_id # None /\ Key(r.rec) = Key(rec))}
       \cup {[id |-> NextRowId(conn), rec |-> rec]}

upsert_violation(conn, rec) ==
  IF Conflicts(conn, rec) \/ rec.facility_name = None
  THEN conn
  ELSE conn \cup {[id |-> NextRowId(conn), rec |-> rec]}

\* value of the call expression upsert_violation(conn, **v)
upsert_violation_result == "None"

\* conn.commit(): the committed rows afterwards
\* a commit that writes nothing
commit_dropped(store, conn) == store

commit(store, conn) == conn

(***************************************************************************)
(* scrapers/fsis_recalls.py                                                *)
(***************************************************************************)
NumQueries == 12
PageLimit == 100
DescriptionCap == 2000

SourceFsis == "USDA FSIS (via openFDA)"
TypeFsis == "Food Safety Recall - Meat/Poultry"
\* a source_id that is the raw recall number
FdaTag_missing == <<>>

FdaTag == <<"F", "D", "A", "-">>

ClassI == <<"C", "l", "a", "s", "s", " ", "I">>
ClassII == ClassI \o <<"I">>
ClassIII == ClassII \o <<"I">>

\* a lookup whose default is the lowest rating
CLASS_SEVERITY_low(classification) ==
  IF classification = ClassI THEN "High"
  ELSE IF classification = ClassII THEN "Medium"
  ELSE "Low"

CLASS_SEVERITY(classification) ==
  IF classification = ClassI THEN "High"
  ELSE IF classification = ClassII THEN "Medium"
  ELSE IF classification = ClassIII THEN "Low"
  ELSE "Medium"

LblProduct == <<"P", "r", "o", "d", "u", "c", "t", ":", " ">>
LblReason == <<"R", "e", "a", "s", "o", "n", ":", " ">>
LblQuantity == <<"Q", "u", "a", "n", "t", "i", "t", "y", ":", " ">>
LblDistribution ==
  <<"D", "i", "s", "t", "r", "i", "b", "u", "t", "i", "o", "n", ":", " ">>
LblType == <<"T", "y", "p", "e", ":", " ">>
LblClassification ==
  <<"C", "l", "a", "s", "s", "i", "f", "i", "c", "a", "t", "i", "o", "n", ":", " ">>

\* f"{label}{value}" if value else None
Part(label, value) == IF Truthy(value) THEN label \o value ELSE None

\* str(x) inside an f-string
Fmt(x) == IF x = None THEN <<"N", "o", "n", "e">> ELSE x

\* ". ".join(filter(None, desc_parts))
RecallAssembled(recall) ==
  LET parts == <<Part(LblProduct, Get(recall, "product_description", <<>>)),
                 Part(LblReason, Get(recall, "reason_for_recall", <<>>)),
                 Part(LblQuantity, Get(recall, "product_quantity", <<>>)),
                 Part(LblDistribution, Get(recall, "distribution_pattern", <<>>)),
                 Part(LblType, Get(recall, "voluntary_mandated", <<>>)),
                 Part(LblClassification, Get(recall, "classification", <<>>))>>
  IN JoinStr(FilterTruthy(parts), DotSpace)

\* the marker added to the first 2000 characters
Truncated_late(description) ==
  IF Len(description) > DescriptionCap
  THEN SubSeq(description, 1, DescriptionCap) \o Ellipsis
  ELSE description

\* if len(description) > 2000: description = description[:1997] + "..."
Truncated(description) ==
  IF Len(description) > DescriptionCap
  THEN SubSeq(description, 1, DescriptionCap - 3) \o Ellipsis
  ELSE description

RecallDescription(recall) == Truncated(RecallAssembled(recall))

RecallDate(init_date) ==
  IF Truthy(init_date) /\ Len(init_date) = 8
  THEN SubSeq(init_date, 1, 4) \o Dash \o SubSeq(init_date, 5, 6)
       \o Dash \o SubSeq(init_date, 7, 8)
  ELSE None

\* the record, or Raised when len(state) is applied to None
recall_to_violation(recall) ==
  LET state == Get(recall, "state", <<>>)
      city == Get(recall, "city", <<>>)
  IN IF state = None THEN Raised
     ELSE [facility_name |-> Get(recall, "recalling_firm", StrUnknown),
           location |-> JoinStr(FilterTruthy(<<city, state>>), CommaSpace),
           state |-> IF Len(state) = 2 THEN state ELSE None,
           county |-> None,
           latitude |-> None,
           longitude |-> None,
           violation_type |-> TypeFsis,
           date |-> RecallDate(Get(recall, "recall_initiation_date", <<>>)),
           source |-> SourceFsis,
           source_id |-> FdaTag \o Fmt(Get(recall, "recall_number", <<>>)),
           description |-> RecallDescription(recall),
           severity |-> CLASS_SEVERITY(Get(recall, "classification", <<>>)),
           penalty_amount |-> None]

\* fetch_recalls: what the caller gets for an upstream outcome
fetch_recalls(resp) == IF resp.status = "ok" THEN resp.results ELSE <<>>

\* recall_num in seen_ids
\* a seen-set that remembers nothing
Seen_never(recall_num, seen) == FALSE

Seen(recall_num, seen) == recall_num \in seen

\* where scrape_fsis_recalls goes after a page of n results read at offset s
\* the loop condition read as skip <= max_per_query
AfterPage_inclusive(n, s, cap) ==
  IF n < PageLimit THEN "f_commit"
  ELSE IF s + n <= cap THEN "f_fetch"
  ELSE "f_commit"

AfterPage(n, s, cap) ==
  IF n < PageLimit THEN "f_commit"
  ELSE IF s + n < cap THEN "f_fetch"
  ELSE "f_commit"

(***************************************************************************)
(* scrapers/epa_echo.py                                                    *)
(***************************************************************************)
NumSic == 5
MaxPolls == 12
MaxPageAttempts == 6
PageSize == 100

SourceEcho == "EPA ECHO"
TypeEcho == "Clean Water Act - CAFO"
EchoTag == <<"E", "C", "H", "O", "-", "C", "W", "A", "-">>
StrWorking == <<"W", "o", "r", "k", "i", "n", "g">>
StrViolation == <<"v", "i", "o", "l", "a", "t", "i", "o", "n">>
StrZero == <<"0">>

CAFO_SIC_CODES ==
  << <<"0", "2", "1", "1">>, <<"0", "2", "1", "3">>, <<"0", "2", "5", "1">>,
     <<"0", "2", "5", "2">>, <<"0", "2", "5", "3">> >>

\* SIC_NAMES.get(sic_code, sic_code), by the position of the code in the list
SIC_NAMES(sic_code) ==
  IF sic_code = CAFO_SIC_CODES[1]
  THEN <<"B", "e", "e", "f", " ", "C", "a", "t", "t", "l", "e", " ",
         "F", "e", "e", "d", "l", "o", "t", "s">>
  ELSE IF sic_code = CAFO_SIC_CODES[2]
  THEN <<"H", "o", "g", " ", "O", "p", "e", "r", "a", "t", "i", "o", "n", "s">>
  ELSE IF sic_code = CAFO_SIC_CODES[3]
  THEN <<"B", "r", "o", "i", "l", "e", "r", "/", "F", "r", "y", "e", "r", " ",
         "C", "h", "i", "c", "k", "e", "n", "s">>
  ELSE IF sic_code = CAFO_SIC_CODES[4]
  THEN <<"E", "g", "g", " ", "P", "r", "o", "d", "u", "c", "t", "i", "o", "n">>
  ELSE IF sic_code = CAFO_SIC_CODES[5]
  THEN <<"T", "u", "r", "k", "e", "y", " ", "O", "p", "e", "r", "a", "t", "i", "o", "n", "s">>
  ELSE sic_code

Digits == <<"0", "1", "2", "3", "4", "5", "6", "7", "8", "9">>
UpperLetters ==
  <<"A", "B", "C", "D", "E", "F", "G", "H", "I", "J", "K", "L", "M",
    "N", "O", "P", "Q", "R", "S", "T", "U", "V", "W", "X", "Y", "Z">>
LowerLetters ==
  <<"a", "b", "c", "d", "e", "f", "g", "h", "i", "j", "k", "l", "m",
    "n", "o", "p", "q", "r", "s", "t", "u", "v", "w", "x", "y", "z">>

IsDigit(c) == \E i \in 1..10 : Digits[i] = c
DigitVal(c) == (CHOOSE i \in 1..10 : Digits[i] = c) - 1

LowerChar(c) ==
  IF \E i \in 1..26 : UpperLetters[i] = c
  THEN LowerLetters[CHOOSE i \in 1..26 : UpperLetters[i] = c]
  ELSE c
UpperChar(c) ==
  IF \E i \in 1..26 : LowerLetters[i] = c
  THEN UpperLetters[CHOOSE i \in 1..26 : LowerLetters[i] = c]
  ELSE c

StrLower(s) == [i \in 1..Len(s) |-> LowerChar(s[i])]
StrUpper(s) == [i \in 1..Len(s) |-> UpperChar(s[i])]

\* sub in s
Contains(s, sub) ==
  \E i \in 0..(Len(s) - Len(sub)) : SubSeq(s, i + 1, i + Len(sub)) = sub

\* s.replace(c, "") for a one-character c
RECURSIVE StripChar(_, _)
StripChar(s, c) ==
  IF s = <<>> THEN <<>>
  ELSE IF Head(s) = c THEN StripChar(Tail(s), c)
  ELSE <<Head(s)>> \o StripChar(Tail(s), c)

RECURSIVE DigitsVal(_)
DigitsVal(s) ==
  IF s = <<>> THEN 0 ELSE DigitsVal(SubSeq(s, 1, Len(s) - 1)) * 10 + DigitVal(s[Len(s)])

AllDigits(s) == s # <<>> /\ \A i \in 1..Len(s) : IsDigit(s[i])

\* int(s) of a str: an optional sign and decimal digits, else ValueError
IsInt(s) ==
  \/ AllDigits(s)
  \/ s # <<>> /\ Head(s) \in {"-", "+"} /\ AllDigits(Tail(s))

ParseInt(s) ==
  IF AllDigits(s) THEN DigitsVal(s)
  ELSE IF Head(s) = "-" THEN 0 - DigitsVal(Tail(s))
  ELSE DigitsVal(Tail(s))

\* float(s) of a str; the floats of the model are the whole numbers, <<n>>
IsFloat(s) == IsInt(s)
ParseFloat(s) == <<ParseInt(s)>>

RECURSIVE IntStr(_)
IntStr(n) ==
  IF n < 0 THEN <<"-">> \o IntStr(0 - n)
  ELSE IF n < 10 THEN <<Digits[n + 1]>>
  ELSE IntStr(n \div 10) \o <<Digits[(n % 10) + 1]>>

LblCafo == <<"C", "A", "F", "O", " ", "T", "y", "p", "e", ":", " ">>
LblPermit ==
  <<"P", "e", "r", "m", "i", "t", " ", "S", "t", "a", "t", "u", "s", ":", " ">>
LblCompliance == <<"C", "o", "m", "p", "l", "i", "a", "n", "c", "e", ":", " ">>
LblQuarters ==
  <<"Q", "u", "a", "r", "t", "e", "r", "s", " ", "i", "n", " ", "N", "o", "n", "-",
    "C", "o", "m", "p", "l", "i", "a", "n", "c", "e", ":", " ">>
LblFormal ==
  <<"F", "o", "r", "m", "a", "l", " ", "E", "n", "f", "o", "r", "c", "e", "m", "e", "n", "t",
    " ", "A", "c", "t", "i", "o", "n", "s", ":", " ">>

\* the compliance text looked at before the flag
FacilitySeverity_swapped(snc_status, compliance_status) ==
  IF Truthy(compliance_status)
     /\ Contains(StrLower(Fmt(compliance_status)), StrViolation) THEN "Medium"
  ELSE IF Truthy(snc_status) /\ Contains(StrUpper(Fmt(snc_status)), <<"S">>) THEN "High"
  ELSE "Low"

FacilitySeverity(snc_status, compliance_status) ==
  IF Truthy(snc_status) /\ Contains(StrUpper(Fmt(snc_status)), <<"S">>) THEN "High"
  ELSE IF Truthy(compliance_status)
          /\ Contains(StrLower(Fmt(compliance_status)), StrViolation) THEN "Medium"
  ELSE "Low"

\* int(qtrs_nc) if qtrs_nc else 0, with ValueError giving 0
FacilityQtrs(qtrs_nc) ==
  IF ~Truthy(qtrs_nc) THEN 0
  ELSE IF ~IsInt(qtrs_nc) THEN 0
  ELSE ParseInt(qtrs_nc)

\* <<lat, lon>> after the shared try block
FacilityLatLon(lat, lon) ==
  IF (Truthy(lat) /\ ~IsFloat(lat)) \/ (Truthy(lon) /\ ~IsFloat(lon))
  THEN <<None, None>>
  ELSE <<IF Truthy(lat) THEN ParseFloat(lat) ELSE None,
         IF Truthy(lon) THEN ParseFloat(lon) ELSE None>>

FacilityPenalty(total_penalties) ==
  IF ~Truthy(total_penalties) THEN None
  ELSE LET p == StripChar(StripChar(total_penalties, "$"), ",")
       IN IF IsFloat(p) THEN ParseFloat(p) ELSE None

\* the record, or NoRecord when the facility is dropped
facility_to_violation(facility, sic_code) ==
  LET state == Get(facility, "CWPState", <<>>)
      compliance_status == Get(facility, "CWPComplianceStatus", <<>>)
      permit_status == Get(facility, "CWPPermitStatusDesc", <<>>)
      last_inspection == Get(facility, "CWPDateLastInspection", <<>>)
      last_penalty_date == Get(facility, "CWPDateLastPenalty", <<>>)
      formal_ea_count == Get(facility, "CWPFormalEaCount", StrZero)
      latlon == FacilityLatLon(Get(facility, "FacLat", None), Get(facility, "FacLong", None))
      severity == FacilitySeverity(Get(facility, "CWPSNCStatus", <<>>), compliance_status)
      qtrs == FacilityQtrs(Get(facility, "CWPQtrsWithNC", StrZero))
      desc_parts ==
        <<LblCafo \o SIC_NAMES(sic_code),
          Part(LblPermit, permit_status),
          Part(LblCompliance, compliance_status),
          IF qtrs > 0 THEN LblQuarters \o IntStr(qtrs) ELSE None,
          IF Truthy(formal_ea_count) /\ formal_ea_count # StrZero
          THEN LblFormal \o formal_ea_count ELSE None>>
  IN IF qtrs = 0 /\ severity = "Low" /\ ~Truthy(last_penalty_date) THEN NoRecord
     ELSE [facility_name |-> Get(facility, "CWPName", StrUnknown),
           location |-> JoinStr(FilterTruthy(<<Get(facility, "CWPStreet", <<>>),
                                               Get(facility, "CWPCity", <<>>),
                                               state>>), CommaSpace),
           state |-> state,
           county |-> Get(facility, "CWPCounty", <<>>),
           latitude |-> latlon[1],
           longitude |-> latlon[2],
           violation_type |-> TypeEcho,
           date |-> IF Truthy(last_penalty_date) THEN last_penalty_date
                    ELSE IF Truthy(last_inspection) THEN last_inspection
                    ELSE None,
           source |-> SourceEcho,
           source_id |-> EchoTag \o Fmt(Get(facility, "SourceID", <<>>)),
           description |-> JoinStr(FilterTruthy(desc_parts), DotSpace),
           severity |-> severity,
           penalty_amount |-> FacilityPenalty(Get(facility, "CWPTotalPenalties", <<>>))]

\* the while condition of the poll loop
PollAgain(results, attempts) ==
  Get(results, "Message", None) = StrWorking /\ attempts < MaxPolls

\* int(results.get("QueryRows", 0)), for the digit strings upstream sends
TotalRows(results) ==
  IF "QueryRows" \in DOMAIN results THEN ParseInt(results["QueryRows"]) ELSE 0

\* int(...) raises on a QueryRows that is no number (ValueError, TypeError)
RowsRaise(results) ==
  "QueryRows" \in DOMAIN results /\ ~IsInt(results["QueryRows"])

\* total_rows == 0 or not qid
NoFacilities(results) ==
  TotalRows(results) = 0 \/ ~Truthy(Get(results, "QueryID", None))

\* the pages of all the rows, the cap left out
PagesToFetch_nocap(total_rows, max_facilities) ==
  (total_rows + 99) \div 100

PagesToFetch(total_rows, max_facilities) ==
  (Min(total_rows, max_facilities) + 99) \div 100

\* all_facilities[:max_facilities] of a run-length encoded list
RECURSIVE Take(_, _)
Take(l, n) ==
  IF l = <<>> \/ n <= 0 THEN <<>>
  ELSE IF Head(l).k <= n THEN <<Head(l)>> \o Take(Tail(l), n - Head(l).k)
  ELSE <<[x |-> Head(l).x, k |-> n]>>

(***************************************************************************)
(* Bounds of the model and the upstream it draws responses from            *)
(***************************************************************************)
MaxRuns == 2
NumRecallNums == 2
MaxPageRuns == 2
NumUpstreams == 4
MaxAlarmTick == 4

StateIA == <<"I", "A">>
RecallNums == {<<UpperLetters[i]>> : i \in 1..NumRecallNums}

\* raw openFDA results: a recall number, a state and a firm, either of them
\* JSON null at times
RawRecalls ==
  {[recall_number |-> n, state |-> s, recalling_firm |-> <<"F">>] :
     n \in RecallNums, s \in {StateIA, None}}
  \cup {[recall_number |-> n, state |-> StateIA, recalling_firm |-> None] :
          n \in RecallNums}

\* a response body is a list of runs: k consecutive copies of the record x
RunCounts == {1, PageLimit}

\* the lists of at most PageLimit raw records, of at most MaxPageRuns runs
ListsOf(raws) ==
  UNION {{l \in [1..n -> [x : raws, k : RunCounts]] : ListLen(l) <= PageLimit} :
           n \in 0..MaxPageRuns}

\* the lists of at most one record
ShortListsOf(raws) == {<<>>} \cup {<<[x |-> r, k |-> 1]>> : r \in raws}

RecallFailures ==
  {[status |-> st, results |-> <<>>] : st \in {"http404", "http500", "error"}}

\* full: pages of up to PageLimit records about NumRecallNums recalls;
\* otherwise pages of at most one record about one recall
AnyRecallResponses(full) ==
  RecallFailures
  \cup {[status |-> "ok", results |-> l] :
          l \in IF full THEN ListsOf(RawRecalls)
                ELSE ShortListsOf({r \in RawRecalls : r.recall_number = <<"A">>})}

NumFacilityIds == 1
FacilityIds == {<<Digits[i + 1]>> : i \in 1..NumFacilityIds}

\* raw ECHO facilities: no quarter or two quarters in non-compliance
RawFacilities ==
  {[SourceID |-> i, CWPName |-> <<"F">>, CWPQtrsWithNC |-> q] :
     i \in FacilityIds, q \in {<<"0">>, <<"2">>}}

\* the envelope of an answer to the initiating query: each key may be absent
Envelope(message, rows, qid) ==
  LET keys == (IF message = None THEN {} ELSE {"Message"})
              \cup (IF rows = None THEN {} ELSE {"QueryRows"})
              \cup (IF qid = None THEN {} ELSE {"QueryID"})
  IN [k \in keys |-> IF k = "Message" THEN message
                     ELSE IF k = "QueryRows" THEN rows ELSE qid]

\* rich: any of the keys may be absent and the rows may exceed a page;
\* odd: the rows may be a text that is no number
AnyEnvelopes(rich, odd) ==
  {Envelope(m, r, q) :
     m \in {None, StrWorking},
     r \in (IF rich THEN {None, <<"0">>, <<"1">>, <<"1", "5", "0">>} ELSE {<<"0">>, <<"1">>})
           \cup (IF odd THEN {<<"x">>} ELSE {}),
     q \in IF rich THEN {None, <<"7">>} ELSE {<<"7">>}}

FailedRequest == [status |-> "error", results |-> <<>>]

AnySubmitResponses(rich, odd) ==
  {FailedRequest} \cup {[status |-> "ok", results |-> e] : e \in AnyEnvelopes(rich, odd)}

\* pairs: a page may also hold two records
AnyPageResponses(full, pairs) ==
  {FailedRequest, [status |-> "ok", results |-> [Message |-> StrWorking]]}
  \cup {[status |-> "ok", results |-> [Facilities |-> l]] :
          l \in (IF full THEN ListsOf(RawFacilities) ELSE ShortListsOf(RawFacilities))
                \cup (IF pairs THEN {<<[x |-> r, k |-> 2]>> : r \in RawFacilities} ELSE {})}

\* Upstreams that answer a request the same way whenever it is made.
OneRecall(n, s) ==
  [status |-> "ok",
   results |-> <<[x |-> [recall_number |-> n, state |-> s, recalling_firm |-> <<"F">>],
                  k |-> 1]>>]

FixedRecall(id, q, s) ==
  CASE id = 1 -> OneRecall(<<"A">>, StateIA)
    [] id = 2 -> IF q % 2 = 1 THEN OneRecall(<<"A">>, StateIA) ELSE OneRecall(<<"B">>, StateIA)
    [] id = 3 -> IF q < 3 THEN OneRecall(<<"B">>, StateIA) ELSE OneRecall(<<"A">>, None)
    [] OTHER -> IF q = 2 THEN OneRecall(<<"A">>, StateIA)
                ELSE [status |-> "http500", results |-> <<>>]

FixedSubmit(id, sic, n) ==
  CASE id = 1 -> [status |-> "ok", results |-> Envelope(None, <<"1">>, <<"7">>)]
    [] id = 2 -> IF n < 2 THEN [status |-> "ok", results |-> [Message |-> StrWorking]]
                 ELSE [status |-> "ok", results |-> Envelope(None, <<"1">>, <<"7">>)]
    [] id = 3 -> [status |-> "ok", results |-> Envelope(StrWorking, <<"1">>, <<"7">>)]
    [] OTHER -> IF sic % 2 = 1 THEN FailedRequest
                ELSE [status |-> "ok", results |-> Envelope(None, <<"1">>, <<"7">>)]

OneFacility(i, q) ==
  [status |-> "ok",
   results |-> [Facilities |->
                  <<[x |-> [SourceID |-> i, CWPName |-> <<"F">>, CWPQtrsWithNC |-> q],
                     k |-> 1]>>]]

FixedPage(id, sic, page_no, attempt) ==
  CASE id = 1 -> OneFacility(<<"1">>, <<"2">>)
    [] id = 2 -> IF attempt = 0 THEN FailedRequest
                 ELSE OneFacility(IF sic % 2 = 1 THEN <<"1">> ELSE <<"2">>, <<"2">>)
    [] id = 3 -> IF attempt < 2 THEN [status |-> "ok", results |-> [Message |-> StrWorking]]
                 ELSE OneFacility(<<"2">>, <<"2">>)
    [] OTHER -> OneFacility(<<"1">>, IF sic = 2 THEN <<"0">> ELSE <<"2">>)

\* the seed loader's curated records (scrapers/seed_data.py is not in src/)
SeedRecord(name, sid) ==
  [facility_name |-> name, location |-> None, state |-> StateIA, county |-> None,
   latitude |-> None, longitude |-> None, violation_type |-> "Seed", date |-> None,
   source |-> "Seed", source_id |-> sid, description |-> <<>>, severity |-> "High",
   penalty_amount |-> None]

SeedRecords == <<SeedRecord(<<"S">>, <<"1">>), SeedRecord(<<"T">>, <<"2">>)>>

(***************************************************************************)
(* Raw payloads for calls of the normalizers on their own.  A field of a   *)
(* payload is a str, JSON null (None) or missing.                          *)
(***************************************************************************)
\* the key is missing from the payload
Absent == <<"absent", "">>

\* the payload d with key k set to x, or without the key when x is Absent
Put(d, k, x) ==
  IF x = Absent THEN [j \in DOMAIN d \ {k} |-> d[j]]
  ELSE [j \in DOMAIN d \cup {k} |-> IF j = k THEN x ELSE d[j]]

\* how far past the cap the longest product description goes
MaxOver == 100

BaseRecall == [recall_number |-> <<"A">>, state |-> StateIA, recalling_firm |-> <<"F">>]
BaseFacility == [SourceID |-> <<"1">>, CWPName |-> <<"F">>, CWPQtrsWithNC |-> <<"2">>]

\* The pairs of payloads the two normalizers are called on: recalls over
\* states and initiation dates, and over classifications and product
\* descriptions that bring the assembled text to the cap, just below and just
\* above it, alone and with a classification part after them; facilities over
\* the compliance fields and the two dates, and over the coordinates; and
\* pairs over the raw identifiers.
NormCalls ==
  LET Repeat(n) == [i \in 1..n |-> "x"]
      RawIds == {Absent, None, <<"1">>, <<"A">>}
      RawStates == {Absent, None, <<>>, StateIA, <<"I", "o", "w", "a">>}
      RawInitDates == {Absent, None, <<>>,
                       <<"2", "0", "2", "4", "0", "1", "1", "5">>,
                       <<"2", "0", "2", "4", "-", "0", "1", "-", "1", "5">>,
                       <<"1", "/", "5", "/", "2", "0", "2", "4">>}
      RawClasses == {Absent, None, <<>>, ClassI, ClassII, ClassIII, ClassIII \o <<"I">>}
      RawProducts ==
        {Absent, <<"x">>}
        \cup {Repeat(DescriptionCap - k) : k \in {8, 9, 10, 33, 34, 35}}
        \cup {Repeat(DescriptionCap + MaxOver)}
      RawSnc == {Absent, <<>>, <<"S">>, <<"s">>, <<"N">>}
      RawCompliance == {Absent, <<"O", "K">>,
                        <<"I", "n", " ", "V", "i", "o", "l", "a", "t", "i", "o", "n">>}
      RawQtrs == {Absent, None, <<>>, <<"0">>, <<"2">>, <<"x">>}
      RawPenaltyDates == {Absent, <<>>,
                          <<"0", "1", "/", "1", "5", "/", "2", "0", "2", "3">>,
                          <<"2", "0", "2", "3", "-", "0", "1", "-", "1", "5">>}
      RawInspections == {Absent, <<"0", "2", "/", "0", "3", "/", "2", "0", "2", "2">>}
      RawCoords == {Absent, None, <<>>, <<"0">>, <<"4", "1">>, <<"x">>}
      NormRecalls ==
        {Put(Put(BaseRecall, "state", s), "recall_initiation_date", d) :
           s \in RawStates, d \in RawInitDates}
        \cup {Put(Put(BaseRecall, "classification", c), "product_description", p) :
                c \in RawClasses, p \in RawProducts}
      NormFacilities ==
        {Put(Put(Put(Put(Put(BaseFacility, "CWPSNCStatus", f), "CWPComplianceStatus", c),
                     "CWPQtrsWithNC", q), "CWPDateLastPenalty", d),
             "CWPDateLastInspection", i) :
           f \in RawSnc, c \in RawCompliance, q \in RawQtrs, d \in RawPenaltyDates,
           i \in RawInspections}
        \cup {Put(Put(BaseFacility, "FacLat", a), "FacLong", o) :
                a \in RawCoords, o \in RawCoords}
  IN {[recall |-> r, facility |-> BaseFacility] : r \in NormRecalls}
     \cup {[recall |-> BaseRecall, facility |-> f] : f \in NormFacilities}
     \cup {[recall |-> Put(BaseRecall, "recall_number", a),
             facility |-> Put(BaseFacility, "SourceID", b)] : a \in RawIds, b \in RawIds}

(***************************************************************************)
(* State                                                                   *)
(***************************************************************************)
VARIABLES
  entry,     \* how the program was started and the caps the fetchers are called with
  upstream,  \* what the two remote services answer
  run,       \* number of the current process run (the store outlives a run)
  pc,        \* position of the single thread of control
  total,     \* main: total
  alarm,     \* the SIGALRM timer: "off", "armed" or "spent"
  db,        \* committed rows of the violations table
  view,      \* rows seen through the fetcher's connection (uncommitted writes included)
  fsis,      \* locals of scrape_fsis_recalls
  epa,       \* locals of scrape_epa_echo and fetch_facilities_for_sic
  obs,       \* history of the run, read by the properties only
  norm       \* a normalizer called on its own: the raw payloads and what it returned

vars == <<entry, upstream, run, pc, total, alarm, db, view, fsis, epa, obs, norm>>

FsisIdle ==
  [qi |-> 0, skip |-> 0, seen_ids |-> {}, total_inserted |-> 0]

EpaIdle ==
  [si |-> 0, poll_attempts |-> 0, results |-> <<>>, pages_to_fetch |-> 0, page |-> 0,
   attempt |-> 0, all_facilities |-> <<>>, facilities |-> <<>>,
   total_inserted |-> 0, tick |-> 0]

\* what the last step did: the source it belongs to, the requests it sent, its
\* upsert calls, how many requests and upserts came after the alarm had fired,
\* how many results the seen-set skipped, the keys of the writes it threw away;
\* of a page request: the page number, how many times the page has been
\* requested and its facilities appended, whether this attempt read the page
\* and whether the fetcher is through with the page; of a recall page request:
\* whether it failed
NoStep ==
  [src |-> "none", gets |-> 0, ups |-> {}, lateGets |-> 0, lateUps |-> 0,
   skipped |-> 0, lost |-> {},
   page |-> 0, tries |-> 0, appends |-> 0, read |-> FALSE, moved |-> FALSE,
   failed |-> FALSE]

ObsIdle ==
  [step |-> NoStep, started |-> <<>>, fsis |-> "none", epa |-> "none",
   reqs |-> <<>>, pagesFull |-> TRUE, cats |-> <<>>, convo |-> "none",
   rows |-> 0, asked |-> {}, appends |-> 0, tried |-> {}, before |-> 0,
   finished |-> {}, unitKeys |-> {}, passes |-> [n \in {} |-> 0], rowsAfter |-> <<>>]

\* a call that has not returned yet
Pending == [pending |-> TRUE]

NoCall == [recall |-> <<>>, facility |-> <<>>, sic |-> 1, violation |-> Pending, v |-> Pending]

FirstPc == IF entry.point = "main" THEN "seed" ELSE entry.point

\* the answers upstream may give to a recall page request
RecallResponses(q, s) ==
  IF upstream.fixed THEN {FixedRecall(upstream.id, q, s)}
  ELSE AnyRecallResponses(upstream.full)

\* the answers to the initiating query (n-th re-issue) and to a page request
SubmitResponses(sic, n) ==
  IF upstream.fixed THEN {FixedSubmit(upstream.id, sic, n)}
  ELSE AnySubmitResponses(upstream.rich, upstream.odd)

PageResponses(sic, page_no, attempt) ==
  IF upstream.fixed THEN {FixedPage(upstream.id, sic, page_no, attempt)}
  ELSE AnyPageResponses(upstream.full, upstream.pairs)

Bump(f, x, n) ==
  IF x \in DOMAIN f THEN [f EXCEPT ![x] = @ + n]
  ELSE [y \in DOMAIN f \cup {x} |-> IF y = x THEN n ELSE f[y]]

(***************************************************************************)
(* scrape.py: main, steps 1 and 2                                          *)
(***************************************************************************)
RECURSIVE UpsertAll(_, _)
UpsertAll(v, recs) ==
  IF recs = <<>> THEN v
  ELSE UpsertAll(upsert_violation(v, Head(recs)), Tail(recs))

\* init_db(); total = 0; count = seed_database(); total += count
Seed ==
  /\ pc = "seed"
  /\ db' = commit(db, UpsertAll(db, SeedRecords))
  /\ view' = db'
  /\ total' = Len(SeedRecords)
  /\ pc' = "fsis"
  /\ obs' = [obs EXCEPT !.step = NoStep, !.started = Append(@, "seed")]
  /\ UNCHANGED <<entry, upstream, norm, run, alarm, fsis, epa>>

(***************************************************************************)
(* scrape_fsis_recalls                                                     *)
(***************************************************************************)
FsisStart ==
  /\ pc = "fsis"
  /\ view' = db
  /\ fsis' = [FsisIdle EXCEPT !.qi = 1]
  /\ pc' = IF 0 < entry.max_per_query THEN "f_fetch" ELSE "f_commit"
  /\ obs' = [obs EXCEPT !.step = NoStep, !.started = Append(@, "fsis"),
                        !.before = Cardinality(db)]
  /\ UNCHANGED <<entry, upstream, norm, run, total, alarm, db, epa>>

\* the key of rec if the connection holds a row for it after the upsert calls
Written(after, rec) == {Key(r.rec) : r \in {x \in after : Key(x.rec) = Key(rec)}}

\* what one call of upsert_violation did, as the properties see it
UpsertObs(before, rec, after) ==
  [dup |-> Conflicts(before, rec),
   kept |-> before \subseteq after,
   added |-> Cardinality(after) - Cardinality(before),
   differs |-> \E r \in before : Key(r.rec) = Key(rec) /\ r.rec # rec,
   ret |-> upsert_violation_result]

\* the body of "for recall in results" for one run of equal results
RecallStep(st, r) ==
  LET recall_num == Get(r.x, "recall_number", <<>>)
      fresh == ~Seen(recall_num, st.seen_ids)
      seen1 == IF fresh THEN st.seen_ids \cup {recall_num} ELSE st.seen_ids
      \* the copies of the record that get past the seen-set
      passes == IF ~fresh THEN 0 ELSE IF Seen(recall_num, seen1) THEN 1 ELSE r.k
      violation == recall_to_violation(r.x)
      after == upsert_violation(st.view, violation)
      again == upsert_violation(after, violation)
  IN IF passes = 0 THEN [st EXCEPT !.skipped = @ + r.k]
     ELSE IF violation = Raised THEN [st EXCEPT !.seen_ids = seen1, !.raised = TRUE]
     ELSE [st EXCEPT !.seen_ids = seen1,
                     !.total_inserted = @ + passes,
                     !.view = IF passes > 1 THEN again ELSE after,
                     !.skipped = @ + (r.k - passes),
                     !.ups = @ \cup {UpsertObs(st.view, violation, after)}
                               \cup (IF passes > 1 THEN {UpsertObs(after, violation, again)}
                                     ELSE {}),
                     !.keys = @ \cup Written(after, violation),
                     !.passes = Bump(@, recall_num, passes)]

RECURSIVE RecallLoop(_, _)
RecallLoop(st, runs) ==
  IF runs = <<>> \/ st.raised THEN st
  ELSE RecallLoop(RecallStep(st, Head(runs)), Tail(runs))

\* main catches what scrape_fsis_recalls raises and goes on to step 3
AfterFsisRaised == IF entry.point = "main" THEN "epa" ELSE "crashed"

\* one pass of the while loop: a page request and the for loop over its results
FsisFetch ==
  /\ pc = "f_fetch"
  /\ \E resp \in RecallResponses(fsis.qi, fsis.skip) :
       LET results == fetch_recalls(resp)
           n == ListLen(results)
           st == RecallLoop([seen_ids |-> fsis.seen_ids, view |-> view,
                             total_inserted |-> fsis.total_inserted, raised |-> FALSE,
                             ups |-> {}, keys |-> obs.unitKeys, passes |-> obs.passes,
                             skipped |-> 0],
                            results)
           step == [NoStep EXCEPT !.src = "fsis", !.gets = 1, !.ups = st.ups,
                                  !.skipped = st.skipped, !.failed = resp.status # "ok"]
       IN IF st.raised
          THEN \* the exception leaves scrape_fsis_recalls; its connection is dropped
               /\ view' = db
               /\ fsis' = FsisIdle
               /\ pc' = AfterFsisRaised
               /\ obs' = [obs EXCEPT !.step = [step EXCEPT !.lost = st.keys],
                                     !.fsis = "raised", !.unitKeys = {},
                                     !.reqs = Append(@, fsis.skip),
                                     !.tried = @ \cup {fsis.qi}, !.before = 0]
          ELSE /\ view' = st.view
               /\ fsis' = [fsis EXCEPT !.seen_ids = st.seen_ids,
                                       !.total_inserted = st.total_inserted,
                                       !.skip = @ + n]
               /\ pc' = IF results = <<>> THEN "f_commit"
                        ELSE AfterPage(n, fsis.skip, entry.max_per_query)
               /\ obs' = [obs EXCEPT !.step = step,
                                     !.unitKeys = st.keys,
                                     !.passes = st.passes,
                                     !.reqs = Append(@, fsis.skip),
                                     !.tried = @ \cup {fsis.qi},
                                     !.pagesFull = @ /\ n = PageLimit]
  /\ UNCHANGED <<entry, upstream, norm, run, total, alarm, db, epa>>

\* conn.commit() after the while loop, and on to the next query
FsisCommit ==
  /\ pc = "f_commit"
  /\ db' = commit(db, view)
  /\ view' = view
  /\ fsis' = [fsis EXCEPT !.qi = @ + 1, !.skip = 0]
  /\ pc' = IF fsis.qi = NumQueries THEN "f_return"
           ELSE IF 0 < entry.max_per_query THEN "f_fetch" ELSE "f_commit"
  /\ obs' = [obs EXCEPT !.step = [NoStep EXCEPT !.src = "fsis"],
                        !.finished = @ \cup obs.unitKeys, !.unitKeys = {},
                        !.reqs = <<>>, !.pagesFull = TRUE]
  /\ UNCHANGED <<entry, upstream, norm, run, total, alarm, epa>>

\* conn.close(); return total_inserted; in main: total += count
FsisReturn ==
  /\ pc = "f_return"
  /\ view' = db
  /\ fsis' = FsisIdle
  /\ total' = IF entry.point = "main" THEN total + fsis.total_inserted ELSE total
  /\ pc' = IF entry.point = "main" THEN "epa" ELSE "finish"
  /\ obs' = [obs EXCEPT !.step = NoStep, !.fsis = "returned", !.before = 0]
  /\ UNCHANGED <<entry, upstream, norm, run, alarm, db, epa>>

(***************************************************************************)
(* scrape.py, step 3, and scrape_epa_echo.  The alarm set by signal.alarm   *)
(* may go off inside any step of the fetcher: each action draws the place   *)
(* (sig) where it does, "none" when it does not.  ScraperTimeout is an      *)
(* Exception, so a handler "except Exception" that encloses the place       *)
(* catches it and the timer, which is one-shot, is spent.                   *)
(***************************************************************************)
Sigs(places) ==
  IF alarm # "armed" THEN {"none"}
  ELSE IF ~upstream.fixed THEN {"none"} \cup places
  ELSE IF epa.tick = upstream.at /\ upstream.sig \in places THEN {upstream.sig}
  ELSE {"none"}

\* the steps of the fetcher are counted when the upstream's timing is fixed
Tick == IF upstream.fixed /\ epa.tick <= MaxAlarmTick THEN epa.tick + 1 ELSE epa.tick

AlarmAfter(sig) == IF sig = "none" THEN alarm ELSE "spent"

\* a request sent, or upserts made, after the alarm has gone off
LateGets(n) == IF alarm = "spent" THEN n ELSE 0

\* ScraperTimeout leaves scrape_epa_echo and reaches main: except, finally
TimedOut(step, committed) ==
  /\ pc' = "finish"
  /\ alarm' = "off"
  /\ epa' = EpaIdle
  /\ obs' = [obs EXCEPT !.step = [step EXCEPT !.lost = IF committed THEN {} ELSE obs.unitKeys],
                        !.finished = IF committed THEN @ \cup obs.unitKeys ELSE @,
                        !.epa = "timeout", !.unitKeys = {},
                        !.rows = 0, !.asked = {}, !.appends = 0, !.before = 0]

\* signal.alarm(90) in main; init_db(), get_connection() in scrape_epa_echo
EpaStart ==
  /\ pc = "epa"
  /\ alarm' = IF entry.point = "main" THEN "armed" ELSE alarm
  /\ view' = db
  /\ epa' = [EpaIdle EXCEPT !.si = 1, !.tick = IF upstream.fixed THEN 1 ELSE 0]
  /\ pc' = "e_submit"
  /\ obs' = [obs EXCEPT !.step = NoStep, !.started = Append(@, "epa"), !.tried = {},
                        !.before = Cardinality(db)]
  /\ UNCHANGED <<entry, upstream, norm, run, total, db, fsis>>

\* where fetch_facilities_for_sic stands once results holds an answer
AfterPoll(results, attempts, max_facilities) ==
  IF PollAgain(results, attempts) THEN "e_poll"
  ELSE IF RowsRaise(results) THEN "e_raised"
  ELSE IF NoFacilities(results) THEN "e_commit"
  ELSE IF PagesToFetch(TotalRows(results), max_facilities) < 1 THEN "e_commit"
  ELSE "e_page"

\* how the conversation about the category has gone so far
Convo(before, answered, results) ==
  IF ~answered THEN (IF before = "none" THEN "failed" ELSE "mixed")
  ELSE IF Get(results, "Message", None) = StrWorking
  THEN (IF before \in {"none", "working"} THEN "working" ELSE "mixed")
  ELSE "answered"

\* the exception of the initiating query leaves scrape_epa_echo
AfterSubmitFailed_abort == "e_return"

\* the initiating query fails: return [], the caller's for loop has nothing to store
AfterSubmitFailed == "e_commit"

\* fetch_facilities_for_sic, step 1: the initiating query
EpaSubmit ==
  /\ pc = "e_submit"
  /\ \E sig \in Sigs({"get"}), resp \in SubmitResponses(epa.si, 0) :
       LET answered == sig = "none" /\ resp.status = "ok"
           results == IF answered THEN resp.results ELSE <<>>
           next == IF answered THEN AfterPoll(results, 0, entry.max_per_sic)
                   ELSE AfterSubmitFailed
       IN /\ alarm' = AlarmAfter(sig)
          /\ epa' = [epa EXCEPT !.results = IF next \in {"e_page", "e_poll"} THEN results ELSE <<>>,
                                !.poll_attempts = 0,
                                !.pages_to_fetch =
                                  IF next = "e_page"
                                  THEN PagesToFetch(TotalRows(results), entry.max_per_sic)
                                  ELSE 0,
                                !.page = IF next = "e_page" THEN 1 ELSE 0,
                                !.attempt = 0,
                                !.all_facilities = <<>>,
                                !.facilities = <<>>,
                                !.tick = Tick]
          /\ pc' = next
          /\ obs' = [obs EXCEPT !.step = [NoStep EXCEPT !.src = "epa", !.gets = 1,
                                                         !.lateGets = LateGets(1)],
                                !.cats = Append(@, epa.si),
                                !.convo = Convo("none", answered, results),
                                !.rows = IF next = "e_page" THEN TotalRows(results) ELSE 0]
  /\ UNCHANGED <<entry, upstream, norm, run, total, db, view, fsis>>

\* one pass of the poll loop: poll_attempts += 1, sleep, the same query again
EpaPoll ==
  /\ pc = "e_poll"
  /\ \E sig \in Sigs({"sleep", "get"}), resp \in SubmitResponses(epa.si, epa.poll_attempts + 1) :
       LET answered == sig = "none" /\ resp.status = "ok"
           results == IF answered THEN resp.results ELSE epa.results
           attempts == epa.poll_attempts + 1
           next == AfterPoll(results, attempts, entry.max_per_sic)
           gets == IF sig = "sleep" THEN 0 ELSE 1
           step == [NoStep EXCEPT !.src = "epa", !.gets = gets, !.lateGets = LateGets(gets)]
       IN IF sig = "sleep"
          THEN TimedOut(step, FALSE) /\ view' = db
          ELSE /\ alarm' = AlarmAfter(sig)
               /\ epa' = [epa EXCEPT !.results = IF next \in {"e_page", "e_poll"} THEN results ELSE <<>>,
                                     !.poll_attempts = attempts,
                                     !.pages_to_fetch =
                                       IF next = "e_page"
                                       THEN PagesToFetch(TotalRows(results), entry.max_per_sic)
                                       ELSE 0,
                                     !.page = IF next = "e_page" THEN 1 ELSE 0,
                                     !.tick = Tick]
               /\ pc' = next
               /\ view' = view
               /\ obs' = [obs EXCEPT !.step = step,
                                     !.convo = Convo(obs.convo, answered, results),
                                     !.rows = IF next = "e_page" THEN TotalRows(results)
                                              ELSE 0]
  /\ UNCHANGED <<entry, upstream, norm, run, total, db, fsis>>

\* what one attempt at a page is: "data" (facilities read, break), "working",
\* or "failed" (the except clause); the alarm inside the try block is "failed"
PageAttempt(sig, resp) ==
  IF sig \in {"get", "sleep5", "extend"} \/ resp.status # "ok" THEN "failed"
  ELSE IF Get(resp.results, "Message", None) = StrWorking THEN "working"
  ELSE "data"

\* the places where the alarm can go off, given what the page request returns
SigFits(sig, resp, attempt) ==
  LET working == resp.status = "ok" /\ Get(resp.results, "Message", None) = StrWorking
  IN CASE sig = "sleep3" -> resp.status # "ok"
       [] sig = "sleep5" -> working
       [] sig = "extend" -> resp.status = "ok" /\ ~working
       [] sig = "sleep1" -> IF resp.status = "ok" /\ ~working THEN TRUE
                            ELSE attempt + 1 = MaxPageAttempts
       [] OTHER -> TRUE

PagePlaces == {"get", "sleep5", "extend", "sleep3", "sleep1"}

\* fetch_facilities_for_sic, step 2: one attempt at one page
EpaPage ==
  /\ pc = "e_page"
  /\ \E resp \in PageResponses(epa.si, epa.page, epa.attempt) :
     \E sig \in Sigs({p \in PagePlaces : SigFits(p, resp, epa.attempt)}) :
          LET kind == PageAttempt(sig, resp)
              read == sig \in {"none", "extend", "sleep1"} /\ resp.status = "ok"
                      /\ Get(resp.results, "Message", None) # StrWorking
              all == IF read THEN epa.all_facilities \o Get(resp.results, "Facilities", <<>>)
                     ELSE epa.all_facilities
              pageDone == kind = "data" \/ epa.attempt + 1 = MaxPageAttempts
              lastPage == epa.page = epa.pages_to_fetch
              facilities == Take(all, entry.max_per_sic)
              appends == IF read /\ Get(resp.results, "Facilities", <<>>) # <<>>
                         THEN obs.appends + 1 ELSE obs.appends
              step == [NoStep EXCEPT !.src = "epa", !.gets = 1, !.lateGets = LateGets(1),
                                     !.page = epa.page, !.tries = epa.attempt + 1,
                                     !.appends = appends, !.read = kind = "data",
                                     !.moved = pageDone]
          IN IF sig \in {"sleep3", "sleep1"}
             THEN TimedOut(step, FALSE) /\ view' = db
             ELSE /\ alarm' = AlarmAfter(sig)
                  /\ view' = view
                  /\ epa' = IF ~pageDone
                            THEN [epa EXCEPT !.all_facilities = all, !.attempt = @ + 1,
                                             !.tick = Tick]
                            ELSE IF ~lastPage
                            THEN [epa EXCEPT !.all_facilities = all, !.attempt = 0,
                                             !.page = @ + 1, !.tick = Tick]
                            ELSE [epa EXCEPT !.all_facilities = <<>>, !.attempt = 0,
                                             !.page = 0, !.pages_to_fetch = 0,
                                             !.results = <<>>,
                                             !.facilities = facilities, !.tick = Tick]
                  /\ pc' = IF ~(pageDone /\ lastPage) THEN "e_page"
                           ELSE IF facilities = <<>> THEN "e_commit" ELSE "e_store"
                  /\ obs' = [obs EXCEPT !.step = step,
                                        !.asked = @ \cup {epa.page},
                                        !.appends = IF pageDone THEN 0 ELSE appends]
  /\ UNCHANGED <<entry, upstream, norm, run, total, db, fsis>>

\* the body of "for facility in facilities" for one run of equal facilities;
\* hit is how the alarm meets the first upsert of the run: "none", "in" (the
\* row is written, the count is not) or "out" (neither is)
FacilityStep(st, r, sic_code, hit) ==
  LET v == facility_to_violation(r.x, sic_code)
      calls == IF hit = "out" THEN r.k - 1 ELSE r.k
      after == IF calls > 0 THEN upsert_violation(st.view, v) ELSE st.view
      again == upsert_violation(after, v)
      counted == IF hit = "none" THEN r.k ELSE r.k - 1
      late == IF st.spent THEN r.k ELSE IF hit = "none" THEN 0 ELSE r.k - 1
  IN IF v = NoRecord THEN st
     ELSE [st EXCEPT !.view = IF calls > 1 THEN again ELSE after,
                     !.total_inserted = @ + counted,
                     !.ups = @ \cup (IF calls > 0 THEN {UpsertObs(st.view, v, after)} ELSE {})
                               \cup (IF calls > 1 THEN {UpsertObs(after, v, again)} ELSE {}),
                     !.keys = @ \cup Written(after, v),
                     !.lateUps = @ + late,
                     !.spent = @ \/ hit # "none"]

RECURSIVE FacilityLoop(_, _, _, _, _)
FacilityLoop(st, runs, sic_code, j, hit) ==
  IF runs = <<>> THEN st
  ELSE FacilityLoop(FacilityStep(st, Head(runs), sic_code, IF j = 1 THEN hit ELSE "none"),
                    Tail(runs), sic_code, j - 1, hit)

\* the runs of epa.facilities that facility_to_violation keeps
Stored ==
  {j \in 1..Len(epa.facilities) :
     facility_to_violation(epa.facilities[j].x, CAFO_SIC_CODES[epa.si]) # NoRecord}

\* the for loop over the facilities of the category
EpaStore ==
  /\ pc = "e_store"
  /\ \E sig \in Sigs(IF Stored = {} THEN {"norm"} ELSE {"norm", "in", "out"}) :
     \E j \in IF sig \notin {"in", "out"} THEN {1}
              ELSE IF upstream.fixed THEN {SetMin(Stored)} ELSE Stored :
          LET st == FacilityLoop([view |-> view, total_inserted |-> epa.total_inserted,
                                  ups |-> {}, keys |-> obs.unitKeys, lateUps |-> 0,
                                  spent |-> alarm = "spent"],
                                 epa.facilities, CAFO_SIC_CODES[epa.si], j,
                                 IF sig \in {"in", "out"} THEN sig ELSE "none")
              step == [NoStep EXCEPT !.src = "epa", !.ups = st.ups, !.lateUps = st.lateUps]
          IN IF sig = "norm"
             THEN TimedOut([NoStep EXCEPT !.src = "epa"], FALSE) /\ view' = db
             ELSE /\ alarm' = AlarmAfter(sig)
                  /\ view' = st.view
                  /\ epa' = [epa EXCEPT !.facilities = <<>>,
                                        !.total_inserted = st.total_inserted,
                                        !.tick = Tick]
                  /\ pc' = "e_commit"
                  /\ obs' = [obs EXCEPT !.step = step, !.unitKeys = st.keys]
  /\ UNCHANGED <<entry, upstream, norm, run, total, db, fsis>>

\* conn.commit(), the log line and time.sleep(1); on to the next category
EpaCommit ==
  /\ pc = "e_commit"
  /\ \E sig \in Sigs({"before", "after"}) :
       LET step == [NoStep EXCEPT !.src = "epa"] IN
       /\ db' = IF sig = "before" THEN db ELSE commit(db, view)
       /\ IF sig = "none"
          THEN /\ alarm' = alarm
               /\ view' = view
               /\ epa' = [epa EXCEPT !.si = @ + 1, !.poll_attempts = 0, !.tick = Tick]
               /\ pc' = IF epa.si = NumSic THEN "e_return" ELSE "e_submit"
               /\ obs' = [obs EXCEPT !.step = step,
                                     !.finished = @ \cup obs.unitKeys, !.unitKeys = {},
                                     !.rows = 0, !.asked = {}, !.appends = 0]
          ELSE /\ TimedOut(step, sig = "after")
               /\ view' = db'
  /\ UNCHANGED <<entry, upstream, norm, run, total, fsis>>

\* conn.close(); return total_inserted; in main: total += count, signal.alarm(0)
EpaReturn ==
  /\ pc = "e_return"
  /\ \E sig \in Sigs({"close", "main"}) :
       /\ total' = IF entry.point = "main" /\ sig # "close"
                   THEN total + epa.total_inserted ELSE total
       /\ view' = db
       /\ alarm' = "off"
       /\ epa' = EpaIdle
       /\ pc' = "finish"
       /\ obs' = [obs EXCEPT !.step = NoStep,
                             !.epa = IF sig = "close" THEN "timeout" ELSE "returned",
                             !.before = 0]
  /\ UNCHANGED <<entry, upstream, norm, run, db, fsis>>

\* an exception leaves scrape_epa_echo; in main, except Exception logs the
\* warning and finally cancels the alarm, which is armed until then: when it
\* goes off in the handler, ScraperTimeout leaves main. Run as a script, the
\* fetcher ends the process with the exception.
EpaRaised ==
  /\ pc = "e_raised"
  /\ \E sig \in Sigs({"warn"}) :
       /\ pc' = IF entry.point # "main" THEN "crashed"
                ELSE IF sig = "none" THEN "finish" ELSE "aborted"
       /\ obs' = [obs EXCEPT !.step = [NoStep EXCEPT !.lost = obs.unitKeys],
                             !.unitKeys = {},
                             !.rows = 0, !.asked = {}, !.appends = 0, !.before = 0,
                             !.epa = IF sig = "none" THEN "raised" ELSE "escaped"]
  /\ view' = db
  /\ alarm' = "off"
  /\ epa' = EpaIdle
  /\ UNCHANGED <<entry, upstream, norm, run, total, db, fsis>>

(***************************************************************************)
(* scrape.py: the end of main, the process and its next run                *)
(***************************************************************************)
\* logger.info("=== Complete. Total: ... ===")
Finish ==
  /\ pc = "finish"
  /\ pc' = "done"
  /\ obs' = [obs EXCEPT !.step = NoStep, !.rowsAfter = Append(@, Cardinality(db))]
  /\ UNCHANGED <<entry, upstream, norm, run, total, alarm, db, view, fsis, epa>>

\* the process is killed: open connections are lost with their uncommitted writes
Crash ==
  /\ pc \notin {"finish", "done", "crashed", "aborted"}
  /\ pc' = "crashed"
  /\ view' = db
  /\ alarm' = "off"
  /\ fsis' = FsisIdle
  /\ epa' = EpaIdle
  /\ obs' = [obs EXCEPT !.step = [NoStep EXCEPT !.lost = obs.unitKeys], !.unitKeys = {},
                        !.before = 0]
  /\ UNCHANGED <<entry, upstream, norm, run, total, db>>

\* the program is started again on the same database file
NewRun ==
  /\ pc \in {"done", "crashed", "aborted"}
  /\ run < MaxRuns
  /\ run' = run + 1
  /\ pc' = FirstPc
  /\ total' = 0
  /\ obs' = [ObsIdle EXCEPT !.rowsAfter = obs.rowsAfter]
  /\ UNCHANGED <<entry, upstream, norm, alarm, db, view, fsis, epa>>

(***************************************************************************)
(* The normalizers called on their own, and the record stored as the       *)
(* fetchers store it                                                        *)
(***************************************************************************)
NormRecall ==
  /\ pc = "n_recall"
  /\ norm' = [norm EXCEPT !.violation = recall_to_violation(norm.recall)]
  /\ pc' = "n_facility"
  /\ UNCHANGED <<entry, upstream, run, total, alarm, db, view, fsis, epa, obs>>

NormFacility ==
  /\ pc = "n_facility"
  /\ norm' = [norm EXCEPT !.v = facility_to_violation(norm.facility,
                                                      CAFO_SIC_CODES[norm.sic])]
  /\ pc' = "n_store"
  /\ UNCHANGED <<entry, upstream, run, total, alarm, db, view, fsis, epa, obs>>

\* upsert_violation(conn, **violation) for what was returned; conn.commit()
NormStore ==
  /\ pc = "n_store"
  /\ LET first == IF norm.violation = Raised THEN view
                  ELSE upsert_violation(view, norm.violation)
         second == IF norm.v = NoRecord THEN first ELSE upsert_violation(first, norm.v)
     IN /\ view' = second
        /\ db' = commit(db, second)
  /\ pc' = "done"
  /\ UNCHANGED <<entry, upstream, run, total, alarm, fsis, epa, obs, norm>>

(***************************************************************************)
(* The ways the program is started                                         *)
(***************************************************************************)
\* python scrape.py: scrape_fsis_recalls(max_per_query=100), scrape_epa_echo(max_per_sic=100)
MainEntry == [point |-> "main", max_per_query |-> 100, max_per_sic |-> 100]

\* python scrapers/fsis_recalls.py, and calls with other caps
FsisEntries == {[point |-> "fsis", max_per_query |-> c, max_per_sic |-> 200] : c \in {100, 250, 500}}

\* python scrapers/epa_echo.py, and calls with the orchestrator's cap and a cap of 1
EpaEntries ==
  {[point |-> "epa", max_per_query |-> 500, max_per_sic |-> c] : c \in {1, 100, 200}}

\* recall_to_violation(raw), facility_to_violation(raw, sic_code)

AnyUpstream(full, rich, odd, pairs) ==
  [fixed |-> FALSE, full |-> full, rich |-> rich, odd |-> odd, pairs |-> pairs,
   id |-> 0, at |-> 0, sig |-> "none"]

AlarmPlaces ==
  {"get", "sleep", "sleep5", "extend", "sleep3", "sleep1", "norm", "in", "out",
   "before", "after", "close", "main"}

FixedUpstreams ==
  {[fixed |-> TRUE, full |-> FALSE, rich |-> FALSE, odd |-> FALSE, pairs |-> FALSE, id |-> i, at |-> 0, sig |-> "none"] : i \in 1..NumUpstreams}
  \cup {[fixed |-> TRUE, full |-> FALSE, rich |-> FALSE, odd |-> FALSE, pairs |-> FALSE, id |-> i, at |-> t, sig |-> p] :
          i \in 1..NumUpstreams, t \in 1..MaxAlarmTick, p \in AlarmPlaces}

InitCommon ==
  /\ run = 1
  /\ total = 0
  /\ alarm = "off"
  /\ db = {}
  /\ view = {}
  /\ fsis = FsisIdle
  /\ epa = EpaIdle
  /\ obs = ObsIdle
  /\ pc = FirstPc

Init ==
  /\ entry = MainEntry
  /\ upstream = AnyUpstream(FALSE, FALSE, TRUE, FALSE)
  /\ InitCommon
  /\ norm = NoCall

InitFixed ==
  /\ entry = MainEntry
  /\ upstream \in FixedUpstreams
  /\ InitCommon
  /\ norm = NoCall

InitFsis ==
  /\ entry \in FsisEntries
  /\ upstream = AnyUpstream(TRUE, FALSE, FALSE, FALSE)
  /\ InitCommon
  /\ norm = NoCall

\* the call with a cap of 1 meets pages of two records
InitEpa ==
  /\ entry \in EpaEntries
  /\ upstream = AnyUpstream(FALSE, TRUE, FALSE, entry.max_per_sic = 1)
  /\ InitCommon
  /\ norm = NoCall

InitNorm ==
  /\ entry = [point |-> "n_recall", max_per_query |-> 500, max_per_sic |-> 200]
  /\ upstream = AnyUpstream(FALSE, FALSE, FALSE, FALSE)
  /\ InitCommon
  /\ \E c \in NormCalls :
       norm = [NoCall EXCEPT !.recall = c.recall, !.facility = c.facility]

Next ==
  \/ Seed
  \/ FsisStart
  \/ FsisFetch
  \/ FsisCommit
  \/ FsisReturn
  \/ EpaStart
  \/ EpaSubmit
  \/ EpaPoll
  \/ EpaPage
  \/ EpaStore
  \/ EpaCommit
  \/ EpaReturn
  \/ EpaRaised
  \/ Finish
  \/ Crash

NextFixed ==
  \/ Seed
  \/ FsisStart
  \/ FsisFetch
  \/ FsisCommit
  \/ FsisReturn
  \/ EpaStart
  \/ EpaSubmit
  \/ EpaPoll
  \/ EpaPage
  \/ EpaStore
  \/ EpaCommit
  \/ EpaReturn
  \/ Finish
  \/ NewRun

NextFsis ==
  \/ FsisStart
  \/ FsisFetch
  \/ FsisCommit
  \/ FsisReturn
  \/ Finish
  \/ Crash

NextEpa ==
  \/ EpaStart
  \/ EpaSubmit
  \/ EpaPoll
  \/ EpaPage
  \/ EpaStore
  \/ EpaCommit
  \/ EpaReturn
  \/ Finish
  \/ Crash

NextNorm ==
  \/ NormRecall
  \/ NormFacility
  \/ NormStore

\* one run of the orchestrator against any upstream, the process may be killed
Spec == Init /\ [][Next]_vars

\* runs of the orchestrator, one after the other, against an upstream that
\* answers each request the same way and takes the same time each run
SpecFixed == InitFixed /\ [][NextFixed]_vars

\* each normalizer applied to a raw payload, the records stored
SpecNorm == InitNorm /\ [][NextNorm]_vars

\* a call of scrape_fsis_recalls on its own
SpecFsis == InitFsis /\ [][NextFsis]_vars

\* a call of scrape_epa_echo on its own
SpecEpa == InitEpa /\ [][NextEpa]_vars

(***************************************************************************)
(* Properties                                                              *)
(***************************************************************************)
StoredKeys == {Key(r.rec) : r \in db}

\* C1: running the pipeline a second time against the same upstream leaves
\* the row count of the first run, and no two rows share (source, source_id).
C1_Idempotent ==
  /\ \A r1, r2 \in db : Key(r1.rec) = Key(r2.rec) => r1 = r2
  /\ Len(obs.rowsAfter) = 2 => obs.rowsAfter[2] = obs.rowsAfter[1]

\* the second run is over and the store holds fetched rows beside the seeds
C1_SecondRunDone ==
  /\ run = 2
  /\ pc = "done"
  /\ Len(obs.rowsAfter) = 2
  /\ obs.rowsAfter[1] >= Len(SeedRecords) + 2

\* C2: no step removes or changes a committed row, and an upsert whose natural
\* key is already stored leaves every row as it was and adds none.
C2_AppendOnly ==
  [][/\ db \subseteq db'
     /\ \A u \in obs'.step.ups : u.dup => (u.kept /\ u.added = 0)]_vars

\* in the second run an upsert meets a stored row with its key and other content
C2_RepeatedKey ==
  /\ run = 2
  /\ \E u \in obs.step.ups : u.dup /\ u.differs

\* C3: upsert returns true exactly when it added a row, false when the key
\* was already stored.
C3_ReturnsInserted ==
  \A u \in obs.step.ups : u.ret = IF u.added = 1 THEN "True" ELSE "False"

\* C4: a category whose every status check answers "Working" is polled exactly
\* MaxPolls times and then yields no facilities, with no page request, whatever
\* query id or row count the answers carry.
C4_WorkingYieldsNothing ==
  obs.convo = "working" =>
    /\ pc \notin {"e_page", "e_store"}
    /\ pc = "e_commit" => epa.poll_attempts = MaxPolls

\* every answer of the category said "Working", and its facilities are stored
C4_PagesAfterWorking ==
  /\ obs.convo = "working"
  /\ epa.poll_attempts = MaxPolls
  /\ pc = "e_store"

\* C5: once the deadline has fired, the EPA source sends no request and makes
\* no upsert.
C5_NothingAfterDeadline ==
  obs.step.lateGets = 0 /\ obs.step.lateUps = 0

\* the alarm has gone off and the fetcher upserts a facility
C5_UpsertAfterDeadline ==
  /\ alarm = "spent"
  /\ obs.step.lateUps > 0

StepOrder == <<"seed", "fsis", "epa">>

\* how far the run has come: every step of the program moves it forward
Rank ==
  CASE pc = "seed" -> 0
    [] pc = "fsis" -> 1
    [] pc = "f_fetch" -> 10 + 10 * fsis.qi + fsis.skip \div PageLimit
    [] pc = "f_commit" -> 10 + 10 * fsis.qi + 9
    [] pc = "f_return" -> 300
    [] pc = "epa" -> 310
    [] pc = "e_submit" -> 400 + 200 * epa.si
    [] pc = "e_poll" -> 400 + 200 * epa.si + 1 + epa.poll_attempts
    [] pc = "e_page" -> 400 + 200 * epa.si + 20 + 10 * epa.page + epa.attempt
    [] pc = "e_store" -> 400 + 200 * epa.si + 100
    [] pc = "e_commit" -> 400 + 200 * epa.si + 110
    [] pc = "e_return" -> 1800
    [] pc = "e_raised" -> 1900
    [] pc = "finish" -> 2000
    [] pc = "done" -> 2001
    [] OTHER -> 2002

\* the step the program stands before can be taken (the for loop over the
\* facilities has no condition to meet)
CanStep ==
  CASE pc = "seed" -> ENABLED Seed
    [] pc = "fsis" -> ENABLED FsisStart
    [] pc = "f_fetch" -> ENABLED FsisFetch
    [] pc = "f_commit" -> ENABLED FsisCommit
    [] pc = "f_return" -> ENABLED FsisReturn
    [] pc = "epa" -> ENABLED EpaStart
    [] pc = "e_submit" -> ENABLED EpaSubmit
    [] pc = "e_poll" -> ENABLED EpaPoll
    [] pc = "e_page" -> ENABLED EpaPage
    [] pc = "e_store" -> TRUE
    [] pc = "e_commit" -> ENABLED EpaCommit
    [] pc = "e_return" -> ENABLED EpaReturn
    [] pc = "e_raised" -> ENABLED EpaRaised
    [] pc = "finish" -> ENABLED Finish
    [] OTHER -> FALSE

\* C6: the orchestrator starts the seed loader, the recall source and the EPA
\* source in this order; when the recall source raises, the EPA source is next
\* and the total is as it was; when the EPA source raises or times out, the
\* report is next and the total is as it was; unless the process is killed,
\* the run can always take a step until the report is made, and every step
\* moves it on.
C6_Orchestrator ==
  /\ [](/\ obs.started = SubSeq(StepOrder, 1, Len(obs.started))
        /\ pc \in {"finish", "done"} => obs.started = StepOrder
        /\ pc \notin {"done", "crashed"} => CanStep)
  /\ [][/\ (obs.fsis = "none" /\ obs'.fsis = "raised") => (total' = total /\ pc' = "epa")
        /\ (obs.epa = "none" /\ obs'.epa \in {"raised", "timeout"})
             => (total' = total /\ pc' = "finish")
        /\ Rank' > Rank]_vars

\* the EPA source raised and the alarm went off while main handled it: the
\* run has ended and the report was not made
C6_AlarmInHandler ==
  /\ pc = "aborted"
  /\ obs.epa = "escaped"
  /\ obs.started = StepOrder

C8_Pagination ==
  /\ \A i \in 1..Len(obs.reqs) : obs.reqs[i] = PageLimit * (i - 1)
  /\ pc = "f_fetch" => (obs.pagesFull /\ fsis.skip < entry.max_per_query)
  /\ (pc = "f_commit" /\ obs.reqs # <<>> /\ obs.pagesFull)
       => Len(obs.reqs) = (entry.max_per_query + PageLimit - 1) \div PageLimit

\* a cap of 250 and full pages: three requests, at 0, 100 and 200
C8_ThreeRequests ==
  /\ pc = "f_commit"
  /\ entry.max_per_query = 250
  /\ obs.pagesFull
  /\ obs.reqs = <<0, 100, 200>>

\* C9: in a run, the results that carry a recall number get past the seen-set
\* once at most.
C9_OncePerRun ==
  \A n \in DOMAIN obs.passes : obs.passes[n] <= 1

\* a later query returns a recall number that an earlier query returned: skipped
C9_SkippedRepeat ==
  /\ fsis.qi > 1
  /\ obs.step.skipped > 0
  /\ \E n \in DOMAIN obs.passes : obs.passes[n] = 1

\* C10: what a finished unit of work (a search query, a facility category)
\* stored is committed: a crash or the deadline loses the unit in progress only.
C10_FinishedUnitsStored ==
  obs.finished \subseteq StoredKeys

\* the process is killed: a unit had finished, the writes of another are lost
C10_CrashLosesUnit ==
  /\ pc = "crashed"
  /\ obs.finished # {}
  /\ obs.step.lost # {}
  /\ ~(obs.step.lost \subseteq StoredKeys)

\* what the normalizers returned, when it is a record
RecallRecord == norm.violation \notin {Pending, Raised}
FacilityRecord == norm.v \notin {Pending, NoRecord}

\* C13: no call of a normalizer raises, whatever optional field of the raw
\* payload is missing, null or malformed.
C13_NormalizersNeverRaise ==
  norm.violation # Raised /\ norm.v # Raised

\* a recall whose state is JSON null: recall_to_violation raised
C13_NullStateRaises ==
  /\ "state" \in DOMAIN norm.recall
  /\ norm.recall.state = None
  /\ norm.violation = Raised

\* C14: the date of every record a normalizer returns, and of every stored
\* row, is absent or of the form YYYY-MM-DD.
C14_DateIsIso ==
  LET IsIso(d) ==
        /\ Len(d) = 10
        /\ d[5] = "-" /\ d[8] = "-"
        /\ \A i \in {1, 2, 3, 4, 6, 7, 9, 10} : IsDigit(d[i])
  IN
  /\ RecallRecord => (norm.violation.date = None \/ IsIso(norm.violation.date))
  /\ FacilityRecord => (norm.v.date = None \/ IsIso(norm.v.date))
  /\ \A r \in db : r.rec.date = None \/ IsIso(r.rec.date)

\* a facility row is stored whose date is the month/day/year text of the registry
C14_RegistryDateStored ==
  \E r \in db : r.rec.source = SourceEcho /\ r.rec.date = <<"0", "1", "/", "1", "5", "/", "2", "0", "2", "3">>

\* C15: the facility is dropped exactly when its quarters in non-compliance
\* are 0, its severity is Low and it has no last-penalty date; a record has
\* severity High with the flag, else Medium with violation text, else Low.
C15_DropAndSeverity ==
  norm.v # Pending =>
    LET f == norm.facility
        SncFlag(x) == x # None /\ \E i \in 1..Len(x) : x[i] \in {"S", "s"}
        ViolationText(x) == x # None /\ Contains(StrLower(x), StrViolation)
        Quarters(q) == IF q # None /\ AllDigits(q) THEN DigitsVal(q) ELSE 0
        PenaltyDated(d) == d \notin {<<>>, None}
        snc == SncFlag(Get(f, "CWPSNCStatus", <<>>))
        text == ViolationText(Get(f, "CWPComplianceStatus", <<>>))
        qtrs == Quarters(Get(f, "CWPQtrsWithNC", StrZero))
        dated == PenaltyDated(Get(f, "CWPDateLastPenalty", <<>>))
        severity == IF snc THEN "High" ELSE IF text THEN "Medium" ELSE "Low"
    IN IF qtrs = 0 /\ severity = "Low" /\ ~dated
       THEN norm.v = NoRecord
       ELSE norm.v # NoRecord /\ norm.v.severity = severity

\* no quarter, no flag, no violation text, a last-penalty date: a Low record
C15_LowWithPenaltyDate ==
  /\ Get(norm.facility, "CWPQtrsWithNC", StrZero) = <<"0">>
  /\ Get(norm.facility, "CWPSNCStatus", <<>>) = <<"N">>
  /\ Get(norm.facility, "CWPComplianceStatus", <<>>) = <<"O", "K">>
  /\ Get(norm.facility, "CWPDateLastPenalty", <<>>) \notin {<<>>, None}
  /\ FacilityRecord
  /\ norm.v.severity = "Low"

\* C16: a facility record, and a stored row, has both latitude and longitude
\* or neither.
C16_LatLonPaired ==
  /\ FacilityRecord => ((norm.v.latitude = None) <=> (norm.v.longitude = None))
  /\ \A r \in db : (r.rec.latitude = None) <=> (r.rec.longitude = None)

\* the raw facility has a latitude and no longitude: so has the stored row
C16_LatitudeAlone ==
  /\ "FacLat" \in DOMAIN norm.facility
  /\ "FacLong" \notin DOMAIN norm.facility
  /\ \E r \in db : r.rec.source = SourceEcho /\ r.rec.latitude # None
                    /\ r.rec.longitude = None

\* C17: a recall's source_id starts with "FDA-", a facility's with
\* "ECHO-CWA-", and the two differ whatever the raw identifiers are.
C17_KeysPrefixed ==
  LET StartsWith(x, prefix) ==
        Len(x) >= Len(prefix) /\ SubSeq(x, 1, Len(prefix)) = prefix
  IN
  /\ RecallRecord => StartsWith(norm.violation.source_id, <<"F", "D", "A", "-">>)
  /\ FacilityRecord
       => StartsWith(norm.v.source_id, <<"E", "C", "H", "O", "-", "C", "W", "A", "-">>)
  /\ (RecallRecord /\ FacilityRecord) => norm.violation.source_id # norm.v.source_id

\* the recall and the facility carry the same raw identifier, both are stored
C17_SameRawId ==
  /\ pc = "done"
  /\ Get(norm.recall, "recall_number", Absent) = <<"1">>
  /\ Get(norm.facility, "SourceID", Absent) = <<"1">>
  /\ \E r1, r2 \in db : r1.rec.source = SourceFsis /\ r2.rec.source = SourceEcho

\* C18: a recall record's severity is High for "Class I", Medium for
\* "Class II", Low for "Class III", and Medium for anything else.
C18_SeverityLookup ==
  RecallRecord =>
    LET c == Get(norm.recall, "classification", Absent)
    IN norm.violation.severity =
         IF c = <<"C", "l", "a", "s", "s", " ", "I">> THEN "High"
         ELSE IF c = <<"C", "l", "a", "s", "s", " ", "I", "I", "I">> THEN "Low"
         ELSE "Medium"

\* the recall has no classification: its record is rated Medium
C18_MissingClassIsMedium ==
  /\ "classification" \notin DOMAIN norm.recall
  /\ RecallRecord
  /\ norm.violation.severity = "Medium"

\* C19: the description of a recall record is the assembled text when that
\* has at most 2000 characters, else its first 1997 characters and "...".
C19_DescriptionTruncated ==
  RecallRecord =>
    LET assembled == RecallAssembled(norm.recall)
        description == norm.violation.description
        L == Len(assembled)
    IN /\ Len(description) = Min(L, 2000)
       /\ L <= 2000 => description = assembled
       /\ L > 2000 => /\ SubSeq(description, 1, 1997) = SubSeq(assembled, 1, 1997)
                      /\ SubSeq(description, 1998, 2000) = <<".", ".", ".">>

\* an assembled text of 2001 characters: 2000 are kept
C19_OneOverTheCap ==
  /\ Len(RecallAssembled(norm.recall)) = 2001
  /\ RecallRecord
  /\ Len(norm.violation.description) = 2000

\* C11: a page is requested 6 times at most and its facilities are appended
\* once at most; the fetcher is through with a page when it has read it or
\* tried it 6 times, not before, and then stands before the next page or,
\* after the last page, before the upserts and the commit of the category.
C11_PageRetriesBounded ==
  LET step == obs.step
      m == Min(obs.rows, entry.max_per_sic)
      last == CHOOSE n \in 0..(m + 1) : PageSize * n >= m /\ PageSize * (n - 1) < m
  IN
  step.page > 0 =>
    /\ step.tries <= MaxPageAttempts
    /\ step.appends <= 1
    /\ step.moved <=> (step.read \/ step.tries = MaxPageAttempts)
    /\ (~step.moved /\ pc # "finish") => (pc = "e_page" /\ epa.page = step.page)
    /\ (step.moved /\ pc # "finish")
         => \/ pc = "e_page" /\ epa.page = step.page + 1 /\ epa.page \notin obs.asked
            \/ pc \in {"e_store", "e_commit"} /\ step.page = last

\* the alarm went off right after a page's facilities were appended; the
\* page was asked again and appended again
C11_AppendedTwice ==
  /\ alarm = "spent"
  /\ obs.step.page > 0
  /\ obs.step.appends = 2

\* C20: with R rows and the cap M, the pages requested are 1..ceil(min(R, M) / 100),
\* in increasing order and none beyond; all of them once the category goes on
\* to its upserts; and the category yields M facilities at most.
C20_PagesAndCap ==
  LET m == Min(obs.rows, entry.max_per_sic)
      \* the least number of pages of 100 that hold m rows
      PagesNeeded == CHOOSE n \in 0..(m + 1) : 100 * n >= m /\ 100 * (n - 1) < m
  IN
  /\ obs.asked # {} => obs.rows > 0
  /\ obs.asked \subseteq 1..PagesNeeded
  /\ obs.step.page > 0 => \A p \in obs.asked : p <= obs.step.page
  /\ (pc \in {"e_store", "e_commit"} /\ obs.rows > 0) => obs.asked = 1..PagesNeeded
  /\ ListLen(epa.facilities) <= entry.max_per_sic

\* 150 rows and a cap of 200: pages 1 and 2 were requested, no more
C20_TwoPages ==
  /\ pc \in {"e_store", "e_commit"}
  /\ obs.rows = 150
  /\ entry.max_per_sic = 200
  /\ obs.asked = {1, 2}

\* C12: a failed page request of the recall fetcher raises nothing and ends
\* the pagination of its query; what the query upserted before is committed
\* and the next query follows; every run of the fetcher tries all 12 queries.
C12_PageFailureContained ==
  /\ [](/\ obs.step.failed
             => (obs.fsis = "none" /\ pc = "f_commit" /\ obs.unitKeys \subseteq {Key(r.rec) : r \in view})
        /\ (obs.fsis \in {"returned", "raised"} /\ (pc = "epa" \/ entry.point = "fsis"))
             => obs.tried = 1..NumQueries)
  /\ [][(obs.step.failed /\ pc' # "crashed")
          => /\ db' = view
             /\ obs.unitKeys \subseteq StoredKeys'
             /\ fsis'.qi = fsis.qi + 1
             /\ pc' = IF fsis.qi = NumQueries THEN "f_return" ELSE "f_fetch"]_vars

\* a recall with a null state ended the run of the fetcher before its last query
C12_RunCutShort ==
  /\ obs.fsis = "raised"
  /\ obs.tried # {}
  /\ obs.tried # 1..NumQueries

\* C21: the raw results taken from the pages of one query in one run, which
\* the for loop has gone through, are max_per_query at most, whatever the cap.
C21_QueryCapHolds ==
  pc \in {"f_fetch", "f_commit"} => fsis.skip <= entry.max_per_query

\* a cap of 250 and three full pages: 300 results of one query gone through
C21_ThirdFullPage ==
  /\ pc = "f_commit"
  /\ entry.max_per_query = 250
  /\ fsis.skip = 300
  /\ obs.reqs = <<0, 100, 200>>

\* C22: the count a fetcher is about to return is the number of rows the
\* store has gained since the fetcher started, in a first run and in a re-run.
C22_CountIsRowsAdded ==
  /\ pc = "f_return" => fsis.total_inserted = Cardinality(db) - obs.before
  /\ pc = "e_return" => epa.total_inserted = Cardinality(db) - obs.before

\* the second run over the same data: the recall fetcher returns a count
\* above zero and the store has gained no row
C22_RerunAddsNothing ==
  /\ run = 2
  /\ pc = "f_return"
  /\ fsis.total_inserted > 0
  /\ Cardinality(db) = obs.before

\* C23: when scrape_fsis_recalls is about to return, the store holds a recall
\* row with source_id "FDA-" and the recall number for every result of every
\* page the run fetched.
C23_FetchedAreStored ==
  pc = "f_return" =>
    \A n \in fsis.seen_ids :
      \E r \in db : /\ r.rec.source = "USDA FSIS (via openFDA)"
                     /\ r.rec.source_id = <<"F", "D", "A", "-">> \o n

\* the run fetched a recall whose recalling_firm is null: it was counted, the
\* fetcher returns, and the store has no row for its number
C23_NullFirmDropped ==
  /\ pc = "f_return"
  /\ fsis.seen_ids = {<<"A">>}
  /\ fsis.total_inserted = 1
  /\ db = {}

====
